---- MODULE Spec2Model ----
(***************************************************************************)
(* Model of src/services/email.py: FeatureProcessor (validation, cache,    *)
(* retry loop with exponential backoff, metrics) and FeatureManager        *)
(* (concurrent batch over asyncio.gather).                                 *)
(*                                                                         *)
(* Scheduling is asyncio's: a coroutine runs without interruption from one *)
(* await to the next, so every action below is the code between two        *)
(* suspension points of process().  The suspension points are the await    *)
(* inside _execute_processing (line 102) and the backoff sleep (line 95).  *)
(***************************************************************************)
EXTENDS Integers, Sequences, FiniteSets, TLC

\* ---------------------------------------------------------------- bounds
MaxCalls   == 2    \* process() coroutines created in one behaviour
MaxBatch   == 2    \* longest list handed to process_batch
MaxRetries == 2    \* largest max_retries a FeatureConfig is built with
MaxClears  == 1    \* clear_cache() calls in one behaviour
MaxClock   == 1    \* largest reading of the clock behind datetime.utcnow()
MaxAttempts == 4   \* largest max_retries where only the retry loop is explored

\* ---------------------------------------------------------------- inputs
\* Input dicts.  Valid ones share or differ in id, timestamp and payload;
\* invalid ones miss one or more of the required keys (the last is the dict
\* of test_process_invalid_data).
ValidRecords ==
    { [id |-> "a", timestamp |-> 1, payload |-> "p"],
      [id |-> "a", timestamp |-> 1, payload |-> "q"],
      [id |-> "a:1", timestamp |-> 2, payload |-> "p"] }

InvalidRecords ==
    { [id |-> "a", timestamp |-> 1],
      [timestamp |-> 1, payload |-> "p"],
      [invalid |-> "data"] }

Records == ValidRecords \cup InvalidRecords

\* How an execution attempt can end: _execute_processing returns, or the
\* execution raises.
OpOutcomes == {"ok", "raise"}

Metadatas == {"m"}

TaskIds == 1..MaxCalls

\* The FeatureProcessor instances that exist.
Engines == {1, 2}

\* ------------------------------------------------------------- the state
VARIABLES
    engines,     \* the FeatureProcessor instances constructed
    config,      \* FeatureProcessor.config, per engine
    cache,       \* FeatureProcessor._cache, per engine: cache key -> result
    metrics,     \* FeatureProcessor._metrics, per engine
    processors,  \* FeatureManager.processors
    now,         \* the latest reading of datetime.utcnow()
    tasks,       \* the process() coroutines: position, locals and history
    batch,       \* the process_batch call: its units and what it returned
    produced,    \* history: <<engine, key, result>> of every successful execution
    completed,   \* history: task ids in the order the coroutines finished
    lastEvent,   \* history: per engine, the latest operation on it
    clears,      \* number of clear_cache() calls so far
    cacheRef,    \* per engine: cache key -> the call that created the dict held
    metricsCopy, \* the dict the latest get_metrics() returned
    built        \* per engine: the create_feature_processor call, its outcome

vars == <<engines, config, cache, metrics, processors, now, tasks, batch, produced,
          completed, lastEvent, clears, cacheRef, metricsCopy, built>>

\* ------------------------------------------------------ pure definitions
required_fields == {"id", "timestamp", "payload"}

Validate(data) == \A f \in required_fields : f \in DOMAIN data

CacheKey(data) == data.id \o ":" \o ToString(data.timestamp)

\* mutant: the result echoes the record's id instead of its payload
ExecuteProcessing_id(data, cfg, t) ==
    [success |-> TRUE, data |-> data.id, processed_at |-> t,
     config |-> cfg.metadata]

ExecuteProcessing(data, cfg, t) ==
    [success |-> TRUE, data |-> data.payload, processed_at |-> t,
     config |-> cfg.metadata]

NoMetrics == [processed |-> 0, failed |-> 0, cache_hits |-> 0]

\* mutant: the counter is lowered
IncMetric_down(m, name) == [m EXCEPT ![name] = @ - 1]

IncMetric(m, name) == [m EXCEPT ![name] = @ + 1]

\* mutant: the cache check is dropped
CacheHit_nocheck(cfg, c, key) == FALSE

CacheHit(cfg, c, key) == cfg.cache_enabled /\ key \in DOMAIN c

CacheLookup(c, key) == c[key]

\* mutant: the store keeps the entry a key already has
CacheStore_first(cfg, c, key, result) ==
    IF cfg.cache_enabled /\ key \notin DOMAIN c
    THEN [k \in DOMAIN c \cup {key} |-> IF k = key THEN result ELSE c[k]]
    ELSE c

CacheStore(cfg, c, key, result) ==
    IF cfg.cache_enabled
    THEN [k \in DOMAIN c \cup {key} |-> IF k = key THEN result ELSE c[k]]
    ELSE c

EmptyCache == [k \in {} |-> 0]

\* mutant: clear_cache leaves the entries in place
Cleared_noop(c) == c

\* self._cache.clear()
Cleared(c) == EmptyCache

\* mutant: the loop is entered whatever max_retries is
HasAttempt_always(cfg, attempt) == TRUE

\* range(max_retries) has an attempt with this index
HasAttempt(cfg, attempt) == attempt >= 0 /\ attempt < cfg.max_retries

\* mutant: the last attempt is taken to be the one after the loop's last
IsLastAttempt_off(cfg, attempt) == attempt = cfg.max_retries

IsLastAttempt(cfg, attempt) == attempt = cfg.max_retries - 1

\* mutant: the delay grows by one per attempt
Backoff_linear(attempt) == attempt + 1

Backoff(attempt) == 2 ^ attempt

\* the exception object raised by the attempt with this index; every
\* attempt raises an object of its own
OpError(attempt) == attempt

NoCause == -1

\* what a process() call ends in
Returned(result) == [type |-> "result", value |-> result]

ValueError == [type |-> "ValueError", msg |-> "Invalid input data structure"]

RetriesExhausted(e) ==
    [type |-> "RuntimeError", msg |-> "Processing failed after attempts",
     cause |-> e]

UnexpectedFailure ==
    [type |-> "RuntimeError", msg |-> "Unexpected processing failure",
     cause |-> NoCause]

Pending == [type |-> "pending"]

NoProcessors == [type |-> "ValueError", msg |-> "No processors available"]

\* mutant: a rejected record is counted as a failed one
ProcessEnter_count(cfg, c, m, data) ==
    IF ~Validate(data)
    THEN [pc |-> "done", outcome |-> ValueError, cache |-> c,
          metrics |-> IncMetric(m, "failed"), hit |-> FALSE, invoked |-> 0]
    ELSE IF CacheHit(cfg, c, CacheKey(data))
    THEN [pc |-> "done", outcome |-> Returned(CacheLookup(c, CacheKey(data))),
          cache |-> c, metrics |-> IncMetric(m, "cache_hits"),
          hit |-> TRUE, invoked |-> 0]
    ELSE IF HasAttempt(cfg, 0)
    THEN [pc |-> "exec", outcome |-> Pending, cache |-> c, metrics |-> m,
          hit |-> FALSE, invoked |-> 1]
    ELSE [pc |-> "done", outcome |-> UnexpectedFailure, cache |-> c,
          metrics |-> m, hit |-> FALSE, invoked |-> 0]

\* process() from its first line to its first suspension or its end:
\* validation, the cache check and the entry into the retry loop.
ProcessEnter(cfg, c, m, data) ==
    IF ~Validate(data)
    THEN [pc |-> "done", outcome |-> ValueError, cache |-> c, metrics |-> m,
          hit |-> FALSE, invoked |-> 0]
    ELSE IF CacheHit(cfg, c, CacheKey(data))
    THEN [pc |-> "done", outcome |-> Returned(CacheLookup(c, CacheKey(data))),
          cache |-> c, metrics |-> IncMetric(m, "cache_hits"),
          hit |-> TRUE, invoked |-> 0]
    ELSE IF HasAttempt(cfg, 0)
    THEN [pc |-> "exec", outcome |-> Pending, cache |-> c, metrics |-> m,
          hit |-> FALSE, invoked |-> 1]
    ELSE [pc |-> "done", outcome |-> UnexpectedFailure, cache |-> c,
          metrics |-> m, hit |-> FALSE, invoked |-> 0]

\* mutant: the failure of the last attempt is stored in the cache
ProcessAttemptEnd_cacheerr(cfg, c, m, data, attempt, r, t) ==
    IF r = "ok"
    THEN LET result == ExecuteProcessing(data, cfg, t)
         IN  [pc |-> "done", outcome |-> Returned(result),
              mid |-> [cache |-> CacheStore(cfg, c, CacheKey(data), result),
                       metrics |-> m],
              cache |-> CacheStore(cfg, c, CacheKey(data), result),
              metrics |-> IncMetric(m, "processed"), sleep |-> 0]
    ELSE IF IsLastAttempt(cfg, attempt)
    THEN [pc |-> "done", outcome |-> RetriesExhausted(OpError(attempt)),
          mid |-> [cache |-> c, metrics |-> m],
          cache |-> CacheStore(cfg, c, CacheKey(data),
                               [ExecuteProcessing(data, cfg, t)
                                    EXCEPT !.success = FALSE]),
          metrics |-> IncMetric(m, "failed"), sleep |-> 0]
    ELSE [pc |-> "sleep", outcome |-> Pending,
          mid |-> [cache |-> c, metrics |-> m], cache |-> c, metrics |-> m,
          sleep |-> Backoff(attempt)]

\* mutant: the call is counted as processed before its result is stored
ProcessAttemptEnd_countfirst(cfg, c, m, data, attempt, r, t) ==
    IF r = "ok"
    THEN LET result == ExecuteProcessing(data, cfg, t)
         IN  [pc |-> "done", outcome |-> Returned(result),
              mid |-> [cache |-> c, metrics |-> IncMetric(m, "processed")],
              cache |-> CacheStore(cfg, c, CacheKey(data), result),
              metrics |-> IncMetric(m, "processed"), sleep |-> 0]
    ELSE IF IsLastAttempt(cfg, attempt)
    THEN [pc |-> "done", outcome |-> RetriesExhausted(OpError(attempt)),
          mid |-> [cache |-> c, metrics |-> m], cache |-> c,
          metrics |-> IncMetric(m, "failed"), sleep |-> 0]
    ELSE [pc |-> "sleep", outcome |-> Pending,
          mid |-> [cache |-> c, metrics |-> m], cache |-> c, metrics |-> m,
          sleep |-> Backoff(attempt)]

\* process() from the end of one execution attempt to the next suspension
\* or the end.  r is "ok" when _execute_processing returned and "raise"
\* when the execution raised; t is the clock read by the execution.  mid is
\* the engine between the store of line 85 and the count of line 87.
ProcessAttemptEnd(cfg, c, m, data, attempt, r, t) ==
    IF r = "ok"
    THEN LET result == ExecuteProcessing(data, cfg, t)
         IN  [pc |-> "done", outcome |-> Returned(result),
              mid |-> [cache |-> CacheStore(cfg, c, CacheKey(data), result),
                       metrics |-> m],
              cache |-> CacheStore(cfg, c, CacheKey(data), result),
              metrics |-> IncMetric(m, "processed"), sleep |-> 0]
    ELSE IF IsLastAttempt(cfg, attempt)
    THEN [pc |-> "done", outcome |-> RetriesExhausted(OpError(attempt)),
          mid |-> [cache |-> c, metrics |-> m], cache |-> c,
          metrics |-> IncMetric(m, "failed"), sleep |-> 0]
    ELSE [pc |-> "sleep", outcome |-> Pending,
          mid |-> [cache |-> c, metrics |-> m], cache |-> c, metrics |-> m,
          sleep |-> Backoff(attempt)]

\* process() from the end of a backoff sleep to the next suspension or end
ProcessResume(cfg, attempt) ==
    IF HasAttempt(cfg, attempt + 1)
    THEN [pc |-> "exec", outcome |-> Pending, invoked |-> 1]
    ELSE [pc |-> "done", outcome |-> UnexpectedFailure, invoked |-> 0]

NoEngine == 0

\* mutant: an empty manager falls back on the engine constructed first
BatchEngine_default(procs) == IF procs = <<>> THEN 1 ELSE procs[1]

\* mutant: the batch goes to the processor added last
BatchEngine_last(procs) ==
    IF procs = <<>> THEN NoEngine ELSE procs[Len(procs)]

\* the processor process_batch delegates to: none when the list is empty
\* (the call raises), otherwise the first of the list
BatchEngine(procs) == IF procs = <<>> THEN NoEngine ELSE procs[1]

\* mutant: the outcomes are collected in the order the units finished
Gather_completion(units, ts) ==
    LET order == SelectSeq(completed,
                           LAMBDA t : \E i \in 1..Len(units) : units[i] = t)
    IN  [i \in 1..Len(units) |-> ts[order[i]].outcome]

\* asyncio.gather(*tasks, return_exceptions=True): one slot per awaitable,
\* in the order of the awaitables, holding its result or its exception
Gather(units, ts) == [i \in 1..Len(units) |-> ts[units[i]].outcome]

\* mutant: return_exceptions=False, the first exception ends the gather
GatherReady_first(units, ts) ==
    \/ \A i \in 1..Len(units) : ts[units[i]].pc = "done"
    \/ \E i \in 1..Len(units) :
           ts[units[i]].pc = "done" /\ ts[units[i]].outcome.type # "result"

\* gather is done when every awaitable is: with return_exceptions=True an
\* exception is a unit's outcome like any other
GatherReady(units, ts) == \A i \in 1..Len(units) : ts[units[i]].pc = "done"

\* -------------------------------------------------------------- the tasks
NoData == [none |-> "none"]

Snapshot(e) == [cache |-> cache[e], metrics |-> metrics[e]]

NoSnapshot == [cache |-> EmptyCache, metrics |-> NoMetrics]

\* kind: "none", "step" (a call suspended), "done" (a call ended) or "clear";
\* task: the call; keys: the keys a clear removed
NoEvent == [kind |-> "none", task |-> 0, keys |-> {}]

\* no dict: the call holds no result
NoRef == 0

\* the call that created the dict a cache holds for the key
RefOf(refs, key) == IF key \in DOMAIN refs THEN refs[key] ELSE NoRef

NewTask ==
    [pc |-> "unused", eng |-> 1, data |-> NoData, slot |-> 0, attempt |-> 0,
     invoked |-> 0, errs |-> <<>>, sleeps |-> <<>>, outcome |-> Pending,
     hit |-> FALSE, delta |-> NoMetrics, writes |-> <<>>,
     pre |-> NoSnapshot, post |-> NoSnapshot, after |-> NoEvent,
     before |-> NoSnapshot, mid |-> NoSnapshot, ref |-> NoRef, began |-> 0]

Used == {t \in TaskIds : tasks[t].pc # "unused"}

NextTask == Cardinality(Used) + 1

\* the increments one step made to an engine's counters
MetricsDiff(m1, m2) == [n \in DOMAIN m1 |-> m2[n] - m1[n]]

AddMetrics(m1, m2) == [n \in DOMAIN m1 |-> m1[n] + m2[n]]

\* the entries one step wrote to an engine's cache
CacheDiff(c1, c2) ==
    {<<k, c2[k]>> : k \in {x \in DOMAIN c2 : x \notin DOMAIN c1 \/ c1[x] # c2[x]}}

\* get_metrics() has not been called
NoCopy == <<>>

\* create_feature_processor() has not been called for the engine
NotBuilt == [called |-> FALSE]

\* --------------------------------------------------------------- Init
\* One FeatureProcessor has been constructed, from any FeatureConfig the
\* dataclass accepts (it checks nothing, so max_retries may be below 1), and
\* a FeatureManager with an empty list of processors.
Init ==
    /\ engines = {1}
    /\ \E cfg \in [max_retries : (-1)..MaxRetries, timeout : {30},
                   cache_enabled : BOOLEAN, metadata : Metadatas] :
           config = [e \in Engines |-> cfg]
    /\ cache = [e \in Engines |-> EmptyCache]
    /\ metrics = [e \in Engines |-> NoMetrics]
    /\ processors = <<>>
    /\ now = 0
    /\ tasks = [t \in TaskIds |-> NewTask]
    /\ batch = [state |-> "none", items |-> <<>>, units |-> <<>>,
                results |-> <<>>]
    /\ produced = {}
    /\ completed = <<>>
    /\ lastEvent = [e \in Engines |-> NoEvent]
    /\ clears = 0
    /\ cacheRef = [e \in Engines |-> EmptyCache]
    /\ metricsCopy = NoCopy
    /\ built = [e \in Engines |-> NotBuilt]

\* ------------------------------------------------------------- actions
\* the history a step of task t leaves, given the engine's state after it
Finish(t, e, pc, c2, m2) ==
    /\ cache' = [cache EXCEPT ![e] = c2]
    /\ metrics' = [metrics EXCEPT ![e] = m2]
    /\ completed' = IF pc = "done" THEN Append(completed, t) ELSE completed
    /\ lastEvent' = [lastEvent EXCEPT ![e] =
                        [kind |-> IF pc = "done" THEN "done" ELSE "step",
                         task |-> t, keys |-> {}]]

\* the coroutine of task t, created on engine e for data d, runs from its
\* start to its first suspension
Enter(t, e, d) ==
    LET s == ProcessEnter(config[e], cache[e], metrics[e], d)
    IN  /\ tasks' = [tasks EXCEPT ![t] =
               [NewTask EXCEPT !.eng = e, !.data = d, !.slot = tasks[t].slot,
                         !.pc = s.pc, !.outcome = s.outcome,
                         !.hit = s.hit, !.invoked = s.invoked,
                         !.delta = MetricsDiff(metrics[e], s.metrics),
                         !.writes = IF CacheDiff(cache[e], s.cache) = {}
                                    THEN <<>>
                                    ELSE <<CacheDiff(cache[e], s.cache)>>,
                         !.pre = Snapshot(e),
                         !.post = [cache |-> s.cache, metrics |-> s.metrics],
                         !.before = Snapshot(e), !.mid = Snapshot(e),
                         !.after = lastEvent[e],
                         !.ref = IF s.hit THEN RefOf(cacheRef[e], CacheKey(d))
                                 ELSE NoRef,
                         !.began = now]]
        /\ Finish(t, e, s.pc, s.cache, s.metrics)

\* a caller awaits processor.process(d) on engine e: the coroutine runs at
\* once, up to its first suspension
Call(e, d) ==
    /\ NextTask <= MaxCalls
    /\ Enter(NextTask, e, d)
    /\ UNCHANGED <<engines, config, cacheRef, metricsCopy, built, processors,
                   now, batch, produced, clears>>

\* the event loop starts a unit of the batch; gather scheduled the units in
\* the order of the items
Start(t) ==
    /\ tasks[t].pc = "created"
    /\ \A u \in TaskIds : u < t => tasks[u].pc # "created"
    /\ Enter(t, tasks[t].eng, tasks[t].data)
    /\ UNCHANGED <<engines, config, cacheRef, metricsCopy, built, processors,
                   now, batch, produced, clears>>

\* the execution attempt of task t ends: it returns ("ok") or raises; an
\* execution that returns reads the clock, which has advanced by dt since
\* it was last read
AttemptEnd(t, r, dt) ==
    /\ tasks[t].pc = "exec"
    /\ r # "ok" => dt = 0
    /\ now + dt <= MaxClock
    /\ now' = now + dt
    /\ LET e == tasks[t].eng
           s == ProcessAttemptEnd(config[e], cache[e], metrics[e],
                                  tasks[t].data, tasks[t].attempt, r, now')
       IN  /\ tasks' = [tasks EXCEPT ![t] =
                  [@ EXCEPT !.pc = s.pc, !.outcome = s.outcome,
                            !.errs = IF r = "ok" THEN @
                                     ELSE Append(@, OpError(tasks[t].attempt)),
                            !.sleeps = IF s.pc = "sleep"
                                       THEN Append(@, s.sleep) ELSE @,
                            !.delta = AddMetrics(@, MetricsDiff(metrics[e], s.metrics)),
                            !.writes = IF CacheDiff(cache[e], s.cache) = {}
                                       THEN @
                                       ELSE Append(@, CacheDiff(cache[e], s.cache)),
                            !.before = Snapshot(e), !.mid = s.mid,
                            !.post = [cache |-> s.cache, metrics |-> s.metrics],
                            !.ref = IF r = "ok" THEN t ELSE @]]
           /\ cacheRef' = IF r = "ok"
                          THEN [cacheRef EXCEPT ![e] =
                                   CacheStore(config[e], @,
                                              CacheKey(tasks[t].data), t)]
                          ELSE cacheRef
           /\ Finish(t, e, s.pc, s.cache, s.metrics)
           /\ produced' = IF r = "ok"
                          THEN produced \cup
                               {<<e, CacheKey(tasks[t].data),
                                  ExecuteProcessing(tasks[t].data, config[e], now')>>}
                          ELSE produced
    /\ UNCHANGED <<engines, config, metricsCopy, built, processors, batch,
                   clears>>

\* the backoff sleep of task t ends
Resume(t) ==
    /\ tasks[t].pc = "sleep"
    /\ LET e == tasks[t].eng
           s == ProcessResume(config[e], tasks[t].attempt)
       IN  /\ tasks' = [tasks EXCEPT ![t] =
                  [@ EXCEPT !.pc = s.pc, !.outcome = s.outcome,
                            !.attempt = @ + 1,
                            !.invoked = @ + s.invoked,
                            !.before = Snapshot(e), !.mid = Snapshot(e),
                            !.post = Snapshot(e), !.began = now]]
           /\ Finish(t, e, s.pc, cache[e], metrics[e])
    /\ UNCHANGED <<engines, config, cacheRef, metricsCopy, built, processors,
                   now, batch, produced, clears>>

\* FeatureProcessor.clear_cache()
ClearCache(e) ==
    /\ clears < MaxClears
    /\ clears' = clears + 1
    /\ cache' = [cache EXCEPT ![e] = Cleared(cache[e])]
    /\ cacheRef' = [cacheRef EXCEPT ![e] = Cleared(cacheRef[e])]
    /\ lastEvent' = [lastEvent EXCEPT ![e] =
                        [kind |-> "clear", task |-> 0, keys |-> DOMAIN cache[e]]]
    /\ UNCHANGED <<engines, config, metricsCopy, built, metrics, processors,
                   now, tasks, batch, produced,
                   completed>>

\* FeatureManager.add_processor(processor).  It touches nothing but the
\* list, so it commutes with every operation of the engines; the manager is
\* set up before the first call.
AddProcessor(e) ==
    /\ Used = {} /\ clears = 0 /\ batch.state = "none"
    /\ \A i \in 1..Len(processors) : processors[i] # e
    /\ processors' = Append(processors, e)
    /\ UNCHANGED <<engines, config, cacheRef, metricsCopy, built, cache,
                   metrics, now, tasks, batch, produced,
                   completed, lastEvent, clears>>

\* FeatureManager.process_batch(items), up to the await of gather
ProcessBatch(items) ==
    /\ batch.state = "none"
    /\ IF BatchEngine(processors) = NoEngine
       THEN /\ batch' = [state |-> "raised", items |-> <<>>, units |-> <<>>,
                         results |-> <<NoProcessors>>]
            /\ UNCHANGED tasks
       ELSE /\ NextTask + Len(items) - 1 <= MaxCalls
            /\ LET first == NextTask
                   units == [i \in 1..Len(items) |-> first + i - 1]
               IN  /\ tasks' = [t \in TaskIds |->
                          IF t >= first /\ t < first + Len(items)
                          THEN [NewTask EXCEPT !.pc = "created",
                                               !.eng = BatchEngine(processors),
                                               !.data = items[t - first + 1],
                                               !.slot = t - first + 1]
                          ELSE tasks[t]]
                   /\ batch' = [state |-> "running", items |-> items,
                                units |-> units, results |-> <<>>]
    /\ UNCHANGED <<engines, config, cacheRef, metricsCopy, built, cache,
                   metrics, processors, now, produced,
                   completed, lastEvent, clears>>

\* gather completes when every unit has finished; process_batch returns
BatchReturn ==
    /\ batch.state = "running"
    /\ GatherReady(batch.units, tasks)
    /\ batch' = [batch EXCEPT !.state = "returned",
                              !.results = Gather(batch.units, tasks)]
    /\ UNCHANGED <<engines, config, cacheRef, metricsCopy, built, cache,
                   metrics, processors, now, tasks, produced,
                   completed, lastEvent, clears>>

Batches == UNION {[1..k -> Records] : k \in 0..MaxBatch}

Next ==
    \/ \E e \in engines, d \in Records : Call(e, d)
    \/ \E t \in TaskIds : Start(t)
    \/ \E t \in TaskIds, r \in OpOutcomes, dt \in {0, 1} :
           AttemptEnd(t, r, dt)
    \/ \E t \in TaskIds : Resume(t)
    \/ \E e \in engines : ClearCache(e)
    \/ \E e \in engines : AddProcessor(e)
    \/ \E items \in Batches : ProcessBatch(items)
    \/ BatchReturn

Spec == Init /\ [][Next]_vars

\* The event loop runs every coroutine that is ready: a unit that gather
\* scheduled is started, an execution attempt ends, a backoff sleep ends, and
\* gather returns once its units are done.
Fairness ==
    /\ \A t \in TaskIds :
           /\ WF_vars(Start(t))
           /\ WF_vars(\E r \in OpOutcomes, dt \in {0, 1} : AttemptEnd(t, r, dt))
           /\ WF_vars(Resume(t))
    /\ WF_vars(BatchReturn)

FairSpec == Spec /\ Fairness

\* The retry loop alone, with longer loops: direct calls on one engine built
\* with max_retries in 0..MaxAttempts.
RetryInit ==
    /\ engines = {1}
    /\ \E cfg \in [max_retries : 0..MaxAttempts, timeout : {30},
                   cache_enabled : BOOLEAN, metadata : Metadatas] :
           config = [e \in Engines |-> cfg]
    /\ cache = [e \in Engines |-> EmptyCache]
    /\ metrics = [e \in Engines |-> NoMetrics]
    /\ processors = <<>>
    /\ now = 0
    /\ tasks = [t \in TaskIds |-> NewTask]
    /\ batch = [state |-> "none", items |-> <<>>, units |-> <<>>,
                results |-> <<>>]
    /\ produced = {}
    /\ completed = <<>>
    /\ lastEvent = [e \in Engines |-> NoEvent]
    /\ clears = 0
    /\ cacheRef = [e \in Engines |-> EmptyCache]
    /\ metricsCopy = NoCopy
    /\ built = [e \in Engines |-> NotBuilt]

RetryNext ==
    \/ \E e \in engines, d \in Records : Call(e, d)
    \/ \E t \in TaskIds, r \in OpOutcomes, dt \in {0, 1} :
           AttemptEnd(t, r, dt)
    \/ \E t \in TaskIds : Resume(t)

RetrySpec == RetryInit /\ [][RetryNext]_vars

\* every execution attempt ends and every backoff sleep ends
RetryFairness ==
    \A t \in TaskIds :
        /\ WF_vars(\E r \in OpOutcomes, dt \in {0, 1} : AttemptEnd(t, r, dt))
        /\ WF_vars(Resume(t))

FairRetrySpec == RetrySpec /\ RetryFairness

\* ------------------------------------------------ further operations
\* nothing has run yet on the engines and the manager
Idle ==
    /\ cache = [e \in Engines |-> EmptyCache]
    /\ metrics = [e \in Engines |-> NoMetrics]
    /\ processors = <<>>
    /\ now = 0
    /\ tasks = [t \in TaskIds |-> NewTask]
    /\ batch = [state |-> "none", items |-> <<>>, units |-> <<>>,
                results |-> <<>>]
    /\ produced = {}
    /\ completed = <<>>
    /\ lastEvent = [e \in Engines |-> NoEvent]
    /\ clears = 0
    /\ cacheRef = [e \in Engines |-> EmptyCache]
    /\ metricsCopy = NoCopy

\* self._metrics.copy(): a new dict with the same counts
MetricsCopy(m) == [n \in DOMAIN m |-> m[n]]

\* FeatureProcessor.get_metrics()
GetMetrics(e) ==
    /\ metricsCopy' = MetricsCopy(metrics[e])
    /\ UNCHANGED <<engines, config, cache, metrics, processors, now, tasks,
                   batch, produced, completed, lastEvent, clears, cacheRef,
                   built>>

\* every operation of Spec, and get_metrics
MetricsNext ==
    \/ Next
    \/ \E e \in engines : GetMetrics(e)

MetricsSpec == Init /\ [][MetricsNext]_vars

\* Two FeatureProcessors and a FeatureManager: the processors are added in
\* either order, then used directly and through process_batch.
ManagerInit ==
    /\ engines = Engines
    /\ \E cfg \in [max_retries : 1..MaxRetries, timeout : {30},
                   cache_enabled : BOOLEAN, metadata : Metadatas] :
           config = [e \in Engines |-> cfg]
    /\ built = [e \in Engines |-> NotBuilt]
    /\ Idle

ManagerNext ==
    \/ \E e \in engines : AddProcessor(e)
    \/ \E e \in engines, d \in ValidRecords : Call(e, d)
    \/ \E items \in Batches : ProcessBatch(items)
    \/ \E t \in TaskIds : Start(t)
    \/ \E t \in TaskIds, r \in OpOutcomes, dt \in {0, 1} :
           AttemptEnd(t, r, dt)
    \/ \E t \in TaskIds : Resume(t)
    \/ BatchReturn

ManagerSpec == ManagerInit /\ [][ManagerNext]_vars

\* The retry loop on an engine built with a timeout of 0 seconds, which
\* every execution exceeds (line 102 sleeps 0.01 s), or of 30 seconds.
Timeouts == {0, 30}

TimedInit ==
    /\ engines = {1}
    /\ \E cfg \in [max_retries : 1..MaxRetries, timeout : Timeouts,
                   cache_enabled : BOOLEAN, metadata : Metadatas] :
           config = [e \in Engines |-> cfg]
    /\ built = [e \in Engines |-> NotBuilt]
    /\ Idle

TimedSpec == TimedInit /\ [][RetryNext]_vars

\* ------------------------------------------- create_feature_processor
\* the fields of the FeatureConfig dataclass
ConfigFields == {"max_retries", "timeout", "cache_enabled", "metadata"}

\* metadata's default_factory: an empty dict
EmptyMetadata == "{}"

DefaultConfig ==
    [max_retries |-> 3, timeout |-> 30, cache_enabled |-> TRUE,
     metadata |-> EmptyMetadata]

\* The mappings handed to the factory: any choice of the keys max_retries
\* (a field) and retries (not a field), each with a value below or above 0.
MappingKeys == {"max_retries", "retries"}

MappingValues == {-1, 1}

Mappings == UNION {[D -> MappingValues] : D \in SUBSET MappingKeys}

EmptyMapping == [k \in {} |-> 0]

Field(kwargs, f) == IF f \in DOMAIN kwargs THEN kwargs[f] ELSE DefaultConfig[f]

\* mutant: a keyword that is not a field is ignored
FeatureConfigOf_lenient(kwargs) ==
    [type |-> "config",
     value |-> [max_retries |-> Field(kwargs, "max_retries"),
                timeout |-> Field(kwargs, "timeout"),
                cache_enabled |-> Field(kwargs, "cache_enabled"),
                metadata |-> Field(kwargs, "metadata")]]

\* FeatureConfig(**kwargs): the generated __init__ raises TypeError on a
\* keyword that is not a field, and checks no value
FeatureConfigOf(kwargs) ==
    IF DOMAIN kwargs \subseteq ConfigFields
    THEN [type |-> "config",
          value |-> [max_retries |-> Field(kwargs, "max_retries"),
                     timeout |-> Field(kwargs, "timeout"),
                     cache_enabled |-> Field(kwargs, "cache_enabled"),
                     metadata |-> Field(kwargs, "metadata")]]
    ELSE [type |-> "TypeError"]

\* create_feature_processor(mapping): an empty mapping is falsy
CreateFeatureProcessor(mapping) ==
    IF DOMAIN mapping # {}
    THEN FeatureConfigOf(mapping)
    ELSE FeatureConfigOf(EmptyMapping)

\* a caller builds engine e with create_feature_processor(mapping)
Create(e, mapping) ==
    /\ e \notin engines
    /\ ~built[e].called
    /\ \A x \in Engines : x < e => built[x].called
    /\ LET r == CreateFeatureProcessor(mapping)
       IN  /\ built' = [built EXCEPT ![e] =
                  [called |-> TRUE, mapping |-> mapping, outcome |-> r.type]]
           /\ IF r.type = "config"
              THEN /\ engines' = engines \cup {e}
                   /\ config' = [config EXCEPT ![e] = r.value]
              ELSE UNCHANGED <<engines, config>>
    /\ UNCHANGED <<cache, metrics, processors, now, tasks, batch, produced,
                   completed, lastEvent, clears, cacheRef, metricsCopy>>

\* No engine exists; engines are built by the factory and then called.
FactoryInit ==
    /\ engines = {}
    /\ config = [e \in Engines |-> DefaultConfig]
    /\ built = [e \in Engines |-> NotBuilt]
    /\ Idle

FactoryNext ==
    \/ \E e \in Engines, mapping \in Mappings : Create(e, mapping)
    \/ \E e \in engines, d \in ValidRecords : Call(e, d)
    \/ \E t \in TaskIds, r \in OpOutcomes, dt \in {0, 1} :
           AttemptEnd(t, r, dt)
    \/ \E t \in TaskIds : Resume(t)

FactorySpec == FactoryInit /\ [][FactoryNext]_vars

\* ----------------------------------------------- the dicts are shared
\* what a caller writes into result['data'] of the dict it was handed
Tampered == "x"

\* config.metadata after a caller has added an entry to it
MutatedMetadata == "m+"

\* A caller changes the dict that call t returned.  Line 85 stored that very
\* dict and line 77 returns it, so the entry of every cache that holds it
\* changes with it.
MutateResult(t) ==
    /\ tasks[t].pc = "done"
    /\ tasks[t].outcome.type = "result"
    /\ cache' = [e \in Engines |->
                    [k \in DOMAIN cache[e] |->
                        IF RefOf(cacheRef[e], k) = tasks[t].ref
                        THEN [cache[e][k] EXCEPT !.data = Tampered]
                        ELSE cache[e][k]]]
    /\ UNCHANGED <<engines, config, metrics, processors, now, tasks, batch,
                   produced, completed, lastEvent, clears, cacheRef,
                   metricsCopy, built>>

\* A caller adds an entry to config.metadata of engine e.  Line 108 puts the
\* metadata dict itself into every result, so the 'config' of every result
\* of the engine changes with it.
MutateMetadata(e) ==
    /\ config[e].metadata \in Metadatas
    /\ config' = [config EXCEPT ![e].metadata = MutatedMetadata]
    /\ cache' = [cache EXCEPT ![e] =
                    [k \in DOMAIN @ |-> [@[k] EXCEPT !.config = MutatedMetadata]]]
    /\ UNCHANGED <<engines, metrics, processors, now, tasks, batch, produced,
                   completed, lastEvent, clears, cacheRef, metricsCopy, built>>

\* One engine, its callers keep and change what they were handed.
AliasInit ==
    /\ engines = {1}
    /\ \E cfg \in [max_retries : 1..MaxRetries, timeout : {30},
                   cache_enabled : BOOLEAN, metadata : Metadatas] :
           config = [e \in Engines |-> cfg]
    /\ built = [e \in Engines |-> NotBuilt]
    /\ Idle

AliasNext ==
    \/ \E e \in engines, d \in ValidRecords : Call(e, d)
    \/ \E t \in TaskIds, r \in OpOutcomes, dt \in {0, 1} :
           AttemptEnd(t, r, dt)
    \/ \E t \in TaskIds : Resume(t)
    \/ \E t \in TaskIds : MutateResult(t)
    \/ \E e \in engines : MutateMetadata(e)

AliasSpec == AliasInit /\ [][AliasNext]_vars

TypeOK ==
    /\ \A e \in Engines : \A n \in DOMAIN metrics[e] : metrics[e][n] >= 0
    /\ now \in 0..MaxClock

\* ------------------------------------------------------------ the claims
Started == {t \in TaskIds : tasks[t].pc \notin {"unused", "created"}}

Done == {t \in TaskIds : tasks[t].pc = "done"}

Cfg(t) == config[tasks[t].eng]

IsValid(t) == Validate(tasks[t].data)

\* the call found no usable cache entry when it started
Uncached(t) ==
    ~(Cfg(t).cache_enabled /\ CacheKey(tasks[t].data) \in DOMAIN tasks[t].pre.cache)

\* C1: a call with a record that misses a required field has ended, as soon
\* as it has started, in the validation error, without an invocation of the
\* operation, and with the cache and the three counters of its engine exactly
\* as they were before the call.
C1_InvalidRejected ==
    \A t \in Started :
        ~IsValid(t) =>
            /\ tasks[t].pc = "done"
            /\ tasks[t].outcome = ValueError
            /\ tasks[t].invoked = 0
            /\ tasks[t].post = tasks[t].pre
            /\ tasks[t].delta = NoMetrics
            /\ tasks[t].writes = <<>>

\* an invalid record was rejected by an engine with a non-empty cache and
\* non-zero counters
C1_Witness ==
    \E t \in Done :
        /\ ~IsValid(t)
        /\ tasks[t].pre.cache # EmptyCache
        /\ tasks[t].pre.metrics.processed > 0

\* the call of task t came right after the end of the call of task s on the
\* same engine, with the same id and timestamp, and s returned a result
Repeats(t, s) ==
    /\ tasks[t].after.kind = "done"
    /\ tasks[t].after.task = s
    /\ IsValid(t) /\ IsValid(s)
    /\ tasks[t].data.id = tasks[s].data.id
    /\ tasks[t].data.timestamp = tasks[s].data.timestamp
    /\ tasks[s].outcome.type = "result"

\* C2: with caching enabled, a call that follows a call with the same id and
\* timestamp that returned a result returns an equal result, does not invoke
\* the operation, adds exactly 1 to cache_hits and leaves processed and
\* failed as they were.
C2_SecondCallHitsCache ==
    \A t \in Started : \A s \in Done :
        (Cfg(t).cache_enabled /\ Repeats(t, s)) =>
            /\ tasks[t].pc = "done"
            /\ tasks[t].outcome = tasks[s].outcome
            /\ tasks[t].invoked = 0
            /\ tasks[t].post.metrics =
                   [tasks[t].pre.metrics EXCEPT !.cache_hits = @ + 1]

\* the second call came with another payload
C2_Witness ==
    \E t \in Done : \E s \in Done :
        /\ Cfg(t).cache_enabled /\ Repeats(t, s)
        /\ tasks[t].data.payload # tasks[s].data.payload

\* C3 as stated: every call that returns a result returns success = true and
\* the payload of the record passed to that call.
C3_Original ==
    \A t \in Done :
        tasks[t].outcome.type = "result" =>
            /\ tasks[t].outcome.value.success = TRUE
            /\ tasks[t].outcome.value.data = tasks[t].data.payload

\* C3 (amended): a call that returns a result returns success = true; when
\* the call executed the operation, data is the payload of the record passed
\* to it; when the call was served from the cache, the result is the cached
\* one, returned by an earlier call that executed the operation for a record
\* with the same cache key, whose payload the data is.
C3_DataEchoesPayload ==
    \A t \in Done :
        tasks[t].outcome.type = "result" =>
            /\ tasks[t].outcome.value.success = TRUE
            /\ tasks[t].invoked > 0 =>
                   tasks[t].outcome.value.data = tasks[t].data.payload
            /\ tasks[t].invoked = 0 =>
                   /\ tasks[t].outcome.value =
                          tasks[t].pre.cache[CacheKey(tasks[t].data)]
                   /\ \E s \in Done :
                          /\ tasks[s].invoked > 0
                          /\ tasks[s].eng = tasks[t].eng
                          /\ CacheKey(tasks[s].data) = CacheKey(tasks[t].data)
                          /\ tasks[s].outcome = tasks[t].outcome
                          /\ tasks[t].outcome.value.data = tasks[s].data.payload

\* a call executed the operation after a retry, and a call was served from
\* the cache with the payload of another record
C3_Witness ==
    /\ \E t \in Done :
           /\ tasks[t].outcome.type = "result"
           /\ tasks[t].invoked > 1
    /\ \E t \in Done :
           /\ tasks[t].outcome.type = "result"
           /\ tasks[t].invoked = 0
           /\ tasks[t].outcome.value.data # tasks[t].data.payload

\* C4: with max_retries = N >= 1, a call on a valid, uncached record whose
\* every execution attempt raised has invoked the operation exactly N times,
\* added exactly 1 to failed and nothing to processed and cache_hits, stored
\* nothing in the cache, and ended in the RuntimeError whose cause is the
\* exception of the last attempt.
C4_RetryExhaustion ==
    \A t \in Done :
        (/\ IsValid(t) /\ Uncached(t)
         /\ Cfg(t).max_retries >= 1
         /\ tasks[t].outcome.type # "result") =>
            /\ tasks[t].invoked = Cfg(t).max_retries
            /\ Len(tasks[t].errs) = Cfg(t).max_retries
            /\ tasks[t].delta = [processed |-> 0, failed |-> 1, cache_hits |-> 0]
            /\ tasks[t].writes = <<>>
            /\ tasks[t].outcome.type = "RuntimeError"
            /\ tasks[t].outcome.cause = tasks[t].errs[Len(tasks[t].errs)]
            /\ tasks[t].outcome.cause = OpError(Cfg(t).max_retries - 1)

\* a call exhausted two attempts
C4_Witness ==
    \E t \in Done :
        /\ IsValid(t) /\ Uncached(t)
        /\ Cfg(t).max_retries >= 2
        /\ tasks[t].outcome.type = "RuntimeError"
        /\ tasks[t].invoked >= 2

\* C5: with max_retries = 0 a call on a valid, uncached record invokes the
\* operation exactly once, and a call that does not return a result has
\* ended in the RuntimeError without a backoff sleep and with 1 added to
\* failed.
C5_ZeroRetriesRunsOnce ==
    \A t \in Done :
        (IsValid(t) /\ Uncached(t) /\ Cfg(t).max_retries = 0) =>
            /\ tasks[t].invoked = 1
            /\ tasks[t].outcome.type # "result" =>
                   /\ tasks[t].outcome.type = "RuntimeError"
                   /\ tasks[t].sleeps = <<>>
                   /\ tasks[t].delta.failed = 1

Slots == 1..Len(batch.items)

\* the unit of the batch that finished at this position
FinishedAt(t) == CHOOSE i \in 1..Len(completed) : completed[i] = t

\* C6: under fair scheduling every unit of a batch runs to its own outcome
\* and the batch call returns, whatever its siblings ended in; the call then
\* holds, in the slot of every record, the outcome of that record's unit: the
\* validation error of a record that misses a field, the RuntimeError of a
\* unit whose attempts were exhausted, the result of a unit that succeeded.
C6_BatchIsolation ==
    /\ (batch.state = "running") ~> (batch.state = "returned")
    /\ [](batch.state = "returned" =>
            /\ Len(batch.results) = Len(batch.items)
            /\ \A i \in Slots :
                   LET u == batch.units[i] IN
                   /\ tasks[u].pc = "done"
                   /\ batch.results[i] = tasks[u].outcome
                   /\ batch.results[i].type \in {"result", "ValueError", "RuntimeError"}
                   /\ batch.results[i] = ValueError <=> ~Validate(batch.items[i]))

\* a batch returned with an error in one slot and a result in another, and
\* the unit that failed had finished before the unit that succeeded
C6_Witness ==
    /\ batch.state = "returned"
    /\ \E i, j \in Slots :
           /\ batch.results[i].type # "result"
           /\ batch.results[j].type = "result"
           /\ FinishedAt(batch.units[i]) < FinishedAt(batch.units[j])

\* C7: a batch call that returned holds a sequence as long as its input, and
\* slot i holds the outcome of the unit started for input record i.
C7_BatchOrder ==
    batch.state = "returned" =>
        /\ Len(batch.results) = Len(batch.items)
        /\ \A i \in Slots :
               \E t \in Done :
                   /\ tasks[t].slot = i
                   /\ tasks[t].data = batch.items[i]
                   /\ batch.units[i] = t
                   /\ batch.results[i] = tasks[t].outcome

\* the second unit finished before the first, with another outcome
C7_Witness ==
    /\ batch.state = "returned"
    /\ Len(batch.items) = 2
    /\ FinishedAt(batch.units[2]) < FinishedAt(batch.units[1])
    /\ batch.results[1] # batch.results[2]

\* C8: every entry of an engine's cache is, under its key, the complete
\* result that a successful execution on that engine produced for a record
\* with that key.
C8_CacheHoldsProducts ==
    \A e \in Engines : \A k \in DOMAIN cache[e] :
        /\ <<e, k, cache[e][k]>> \in produced
        /\ cache[e][k].success = TRUE
        /\ DOMAIN cache[e][k] = {"success", "data", "processed_at", "config"}

\* an entry was stored after a clear, on an engine where a call has failed
C8_Witness ==
    \E e \in Engines :
        /\ cache[e] # EmptyCache
        /\ clears > 0
        /\ metrics[e].failed > 0

\* C9: right after clear_cache the cache is empty, and a call that comes
\* next, for a key the clear removed, is not served from the cache: it
\* invokes the operation, adds nothing to cache_hits, and when it returns a
\* result it is the one it executed, with 1 added to processed.
C9_ClearForcesReexecution ==
    /\ \A e \in Engines : lastEvent[e].kind = "clear" => cache[e] = EmptyCache
    /\ \A t \in Started :
           (/\ IsValid(t)
            /\ tasks[t].after.kind = "clear"
            /\ CacheKey(tasks[t].data) \in tasks[t].after.keys) =>
               /\ tasks[t].invoked >= 1
               /\ tasks[t].delta.cache_hits = 0
               /\ (tasks[t].pc = "done" /\ tasks[t].outcome.type = "result") =>
                      /\ tasks[t].delta.processed = 1
                      /\ tasks[t].outcome.value.data = tasks[t].data.payload

\* a call for a key that a clear removed returned the result it executed
C9_Witness ==
    \E t \in Done :
        /\ tasks[t].after.kind = "clear"
        /\ IsValid(t)
        /\ CacheKey(tasks[t].data) \in tasks[t].after.keys
        /\ tasks[t].outcome.type = "result"

CallsOn(e) == {t \in Done : tasks[t].eng = e}

AllFinished == Used # {} /\ Used = Done

\* C10: once all calls on an engine (built with max_retries >= 0) have
\* finished, processed is the number of calls that returned a result they
\* executed, failed is the number of calls that ended in the RuntimeError,
\* and cache_hits is the number of calls that returned a cached result.
C10_MetricsCountCalls ==
    AllFinished =>
        \A e \in {x \in engines : config[x].max_retries >= 0} :
            /\ metrics[e].processed = Cardinality(
                   {t \in CallsOn(e) : tasks[t].outcome.type = "result"
                                       /\ tasks[t].invoked > 0})
            /\ metrics[e].failed = Cardinality(
                   {t \in CallsOn(e) : tasks[t].outcome.type = "RuntimeError"})
            /\ metrics[e].cache_hits = Cardinality(
                   {t \in CallsOn(e) : tasks[t].outcome.type = "result"
                                       /\ tasks[t].invoked = 0})

\* the same count where the retry loop has at least one attempt
C10_CountWithAttempts ==
    (\A e \in engines : config[e].max_retries >= 1) => C10_MetricsCountCalls

\* C12: a process_batch call on a manager without processors raises the
\* ValueError "No processors available" at once, whatever the batch: the
\* step creates no unit, invokes nothing, and leaves every cache, every
\* counter and every call as they were.
C12_NoEngineFailsFast ==
    [][(batch.state = "none" /\ batch'.state # "none" /\ processors = <<>>) =>
          /\ batch'.state = "raised"
          /\ batch'.results = <<NoProcessors>>
          /\ batch'.units = <<>>
          /\ tasks' = tasks
          /\ cache' = cache
          /\ metrics' = metrics]_vars

\* a batch call raised on a manager without processors, after direct calls
\* had filled the cache of the engine
C12_Witness ==
    /\ batch.state = "raised"
    /\ processors = <<>>
    /\ \E e \in engines : cache[e] # EmptyCache /\ metrics[e].processed > 0

\* the call entered the retry loop
InLoop(t) == IsValid(t) /\ Uncached(t) /\ Cfg(t).max_retries >= 1

\* the call ended because every attempt of the loop raised
Exhausted(t) ==
    /\ tasks[t].pc = "done" /\ InLoop(t)
    /\ tasks[t].outcome.type = "RuntimeError"

\* C16: the k-th backoff sleep of a call (k = 0, 1, ...) follows the failure
\* of attempt k and lasts 2^k; a call sleeps once after each failed attempt
\* but the last, so a call that exhausted N attempts has slept N-1 times, for
\* 1, 2, 4, ..., 2^(N-2).
C16_ExponentialBackoff ==
    \A t \in Started :
        InLoop(t) =>
            /\ \A i \in 1..Len(tasks[t].sleeps) : tasks[t].sleeps[i] = 2 ^ (i - 1)
            /\ tasks[t].pc = "exec" =>
                   /\ Len(tasks[t].sleeps) = tasks[t].attempt
                   /\ Len(tasks[t].errs) = tasks[t].attempt
            /\ tasks[t].pc = "sleep" =>
                   /\ Len(tasks[t].sleeps) = tasks[t].attempt + 1
                   /\ Len(tasks[t].errs) = tasks[t].attempt + 1
                   /\ tasks[t].attempt < Cfg(t).max_retries - 1
            /\ tasks[t].pc = "done" =>
                   Len(tasks[t].sleeps) = tasks[t].invoked - 1
            /\ Exhausted(t) =>
                   /\ Len(tasks[t].errs) = Cfg(t).max_retries
                   /\ Len(tasks[t].sleeps) = Cfg(t).max_retries - 1

\* a call exhausted four attempts and slept for 1, 2 and 4
C16_Witness ==
    \E t \in Done :
        /\ Exhausted(t)
        /\ Cfg(t).max_retries = 4
        /\ tasks[t].sleeps = <<1, 2, 4>>

\* C19: a call whose execution attempts and backoff sleeps all end comes to
\* an end; it has then invoked the operation at most max_retries times and
\* has returned a result or raised the ValueError or the RuntimeError, and
\* the RuntimeError of an exhausted loop carries the exception of the last
\* attempt only.
C19_CallsTerminate ==
    /\ \A t \in TaskIds :
           (tasks[t].pc \in {"exec", "sleep"}) ~> (tasks[t].pc = "done")
    /\ [](\A t \in Started :
            /\ tasks[t].invoked <= Cfg(t).max_retries
            /\ tasks[t].pc = "done" =>
                   /\ tasks[t].outcome.type \in {"result", "ValueError", "RuntimeError"}
                   /\ tasks[t].outcome.type = "ValueError" <=> ~IsValid(t)
                   /\ Exhausted(t) =>
                          tasks[t].outcome =
                              RetriesExhausted(tasks[t].errs[Len(tasks[t].errs)]))

\* a call ended after three failed attempts, in a result or in the error
C19_Witness ==
    /\ \E t \in Done : Exhausted(t) /\ Len(tasks[t].errs) >= 3
    /\ \E t \in Done : tasks[t].outcome.type = "result" /\ Len(tasks[t].errs) >= 3

Total(m) == m.processed + m.failed + m.cache_hits

\* C17: a call writes the cache at most once and adds to the counters at
\* most once; it has done neither while it is in an execution attempt or in
\* a backoff sleep; and in the step that ends a successful attempt the
\* result is stored (line 85) before processed is incremented (line 87).
C17_EffectsOnceAtTheEnd ==
    \A t \in Started :
        /\ Len(tasks[t].writes) <= 1
        /\ Total(tasks[t].delta) <= 1
        /\ tasks[t].pc \in {"exec", "sleep"} =>
               /\ tasks[t].writes = <<>>
               /\ tasks[t].delta = NoMetrics
        /\ (tasks[t].pc = "done" /\ tasks[t].outcome.type = "result"
            /\ tasks[t].invoked > 0) =>
               /\ tasks[t].mid.metrics = tasks[t].before.metrics
               /\ tasks[t].mid.cache = tasks[t].post.cache
               /\ tasks[t].post.metrics =
                      IncMetric(tasks[t].before.metrics, "processed")
               /\ Cfg(t).cache_enabled =>
                      tasks[t].mid.cache[CacheKey(tasks[t].data)] =
                          tasks[t].outcome.value

\* a call stored and counted its result after a failed attempt and a sleep
C17_Witness ==
    \E t \in Done :
        /\ tasks[t].outcome.type = "result"
        /\ Len(tasks[t].sleeps) >= 1
        /\ Len(tasks[t].writes) = 1
        /\ tasks[t].delta.processed = 1

\* the finished calls on engine e that executed the operation for key k and
\* stored its result
Writers(e, k) ==
    {t \in Done : /\ tasks[t].eng = e
                  /\ IsValid(t) /\ CacheKey(tasks[t].data) = k
                  /\ tasks[t].outcome.type = "result"
                  /\ ~tasks[t].hit}

\* the writer whose store step ran last
LastWriter(e, k) ==
    CHOOSE t \in Writers(e, k) :
        \A s \in Writers(e, k) : FinishedAt(s) <= FinishedAt(t)

\* C18: a call that misses the cache executes the operation, also when other
\* calls for the same key are in flight; as long as the cache has not been
\* cleared, the entry of a key is the result of the call that stored last,
\* whatever the earlier calls for that key had stored.
C18_LastWriterWins ==
    /\ \A t \in Done : InLoop(t) => tasks[t].invoked >= 1 /\ ~tasks[t].hit
    /\ clears = 0 =>
           \A e \in {x \in engines : config[x].cache_enabled} :
               /\ \A k \in DOMAIN cache[e] : Writers(e, k) # {}
               /\ \A k \in {CacheKey(d) : d \in ValidRecords} :
                      Writers(e, k) # {} =>
                          /\ k \in DOMAIN cache[e]
                          /\ cache[e][k] = tasks[LastWriter(e, k)].outcome.value

\* two calls for one key both missed the cache, both executed, and the cache
\* holds the record of the later store, which differs from the earlier one
C18_Witness ==
    /\ clears = 0
    /\ \E t, s \in Done :
           /\ t # s /\ tasks[t].eng = tasks[s].eng
           /\ Cfg(t).cache_enabled
           /\ IsValid(t) /\ IsValid(s)
           /\ CacheKey(tasks[t].data) = CacheKey(tasks[s].data)
           /\ Uncached(t) /\ Uncached(s)
           /\ tasks[t].outcome.type = "result"
           /\ tasks[s].outcome.type = "result"
           /\ tasks[t].outcome.value # tasks[s].outcome.value
           /\ FinishedAt(s) < FinishedAt(t)
           /\ cache[tasks[t].eng][CacheKey(tasks[t].data)] =
                  tasks[t].outcome.value

\* the engines that are not the first of the manager's list
OtherEngines == {e \in engines : processors = <<>> \/ e # processors[1]}

\* a step of the batch: process_batch itself, or one of its units
BatchStep ==
    \/ batch' # batch
    \/ \E t \in TaskIds : tasks[t].slot > 0 /\ tasks'[t] # tasks[t]

\* C20: every unit of a batch runs on the processor that was added first,
\* whatever was added after it, and no step of a batch (the process_batch
\* call, a step of one of its units, its return) changes the cache or the
\* counters of another engine.
C20_BatchUsesFirstEngine ==
    [][/\ \A t \in TaskIds :
              tasks'[t].slot > 0 => tasks'[t].eng = processors'[1]
       /\ BatchStep =>
              \A e \in OtherEngines :
                  cache'[e] = cache[e] /\ metrics'[e] = metrics[e]]_vars

\* engine 2 was added before engine 1; a batch ran a record on engine 2 and
\* returned, while engine 1 holds what a direct call left there
C20_Witness ==
    /\ processors = <<2, 1>>
    /\ batch.state = "returned"
    /\ \E t \in Done :
           /\ tasks[t].slot > 0 /\ tasks[t].eng = 2
           /\ tasks[t].outcome.type = "result"
    /\ metrics[2].processed >= 1
    /\ \E s \in Done : tasks[s].slot = 0 /\ tasks[s].eng = 1
    /\ metrics[1].processed = 1

\* C15: in every step of process, process_batch, get_metrics and
\* clear_cache, in any interleaving, each of the three counters of every
\* engine is at least 0 and at least what it was before the step; a step
\* that is a get_metrics or a clear_cache leaves the counters as they were.
C15_CountersMonotone ==
    [][/\ \A e \in Engines : \A n \in DOMAIN metrics[e] :
              /\ metrics[e][n] >= 0
              /\ metrics'[e][n] >= metrics[e][n]
       /\ (metricsCopy' # metricsCopy \/ clears' # clears) =>
              metrics' = metrics]_vars

\* after a batch and a direct call had raised the counters, get_metrics
\* returned them and clear_cache emptied the cache: the counters still are
\* what get_metrics returned
C15_Witness ==
    /\ batch.state = "returned"
    /\ \E t \in Done : tasks[t].slot = 0
    /\ \E t \in Done : tasks[t].slot > 0
    /\ clears = 1
    /\ metricsCopy # NoCopy
    /\ \E e \in engines :
           /\ metricsCopy = metrics[e]
           /\ metrics[e].processed + metrics[e].failed
                  + metrics[e].cache_hits = 2
           /\ cache[e] = EmptyCache

\* the time the execution that returned the result of call t had run:
\* from the start of the attempt to the clock reading of line 106
Duration(t) == tasks[t].outcome.value.processed_at - tasks[t].began

\* C11: a call returns the result of an execution only if that execution
\* ran no longer than the configured timeout; a longer execution counts as
\* a failed attempt.
C11_TimeoutBoundsAttempt ==
    \A t \in Done :
        (tasks[t].outcome.type = "result" /\ ~tasks[t].hit) =>
            Duration(t) <= Cfg(t).timeout

\* the mapping names something that is not a field of the configuration
UnknownField(mapping) == ~(DOMAIN mapping \subseteq ConfigFields)

NegativeRetries(mapping) ==
    "max_retries" \in DOMAIN mapping /\ mapping["max_retries"] < 0

\* C13: a factory call with a mapping that has an unknown field or a
\* negative retry count raises and builds no engine, so no call runs on an
\* engine with a negative retry count.
C13_InvalidConfigRejected ==
    /\ \A e \in Engines :
           (built[e].called /\ (\/ UnknownField(built[e].mapping)
                                \/ NegativeRetries(built[e].mapping))) =>
               built[e].outcome # "config" /\ e \notin engines
    /\ \A t \in Started : Cfg(t).max_retries >= 0

\* the part of C13 that the code keeps: a mapping with an unknown field
\* raises (TypeError) in the factory and builds no engine
C13_UnknownFieldRejected ==
    \A e \in Engines :
        (built[e].called /\ UnknownField(built[e].mapping)) =>
            built[e].outcome = "TypeError" /\ e \notin engines

\* a factory call with an unknown field has raised
C13_UnknownFieldWitness ==
    \E e \in Engines :
        /\ built[e].called /\ UnknownField(built[e].mapping)
        /\ built[e].outcome = "TypeError"

\* C14: a call served from the cache returns the record as it was when it
\* was stored, that is, as the call that stored it returned it, whatever the
\* callers did since to the records they hold or to the metadata.
C14_StoredByValue ==
    \A t \in Done :
        (tasks[t].hit /\ tasks[t].ref # NoRef) =>
            tasks[t].outcome.value = tasks[tasks[t].ref].outcome.value

====
